---- MODULE Spec2Model ----
(***************************************************************************)
(* Model of src/main.py: BilibiliLiveMonitor, an asyncio plugin with two   *)
(* entry points that share self.room_status and                            *)
(* self.pending_notifications:                                             *)
(*   - monitor_task, the background polling loop;                          *)
(*   - on_group_message, an async generator run once per inbound event.    *)
(* asyncio runs one task at a time and switches only at an await or at a   *)
(* yield of the generator, so every action below is the code between two   *)
(* consecutive suspension points of one task.                              *)
(***************************************************************************)
EXTENDS Integers, Sequences, FiniteSets, TLC

(***************************************************************************)
(* Bounds of the model.                                                    *)
(***************************************************************************)
\* polling cycles whose fetches may succeed; later cycles only see failures
MaxCycles == 3

(***************************************************************************)
(* Program constants.                                                      *)
(***************************************************************************)
StartupDelay == 5
DefaultInterval == 60
LiveinfoPrefixLen == 9

\* Python's None where a record is expected, and where a timestamp is expected
None == [t |-> "none"]
NoTime == -1

(***************************************************************************)
(* Text.  A Python str is a sequence of one-character strings.             *)
(***************************************************************************)
LIVEINFO == <<"l", "i", "v", "e", "i", "n", "f", "o">>

\* the characters that occur in the modelled inputs; "sup2" stands for the
\* one-character string U+00B2 (superscript two)
AsciiDigits == {"0", "1", "2", "3", "4", "5", "6", "7", "8", "9"}
Whitespace == {" "}

\* str.lower on one character
LowerChar(c) ==
  CASE c = "L" -> "l" [] c = "I" -> "i" [] c = "V" -> "v" [] c = "E" -> "e"
    [] c = "N" -> "n" [] c = "F" -> "f" [] c = "O" -> "o" [] c = "A" -> "a"
    [] c = "B" -> "b" [] c = "C" -> "c" [] OTHER -> c

Lower(s) == [i \in 1..Len(s) |-> LowerChar(s[i])]

RECURSIVE LStrip(_)
LStrip(s) == IF s # <<>> /\ Head(s) \in Whitespace THEN LStrip(Tail(s)) ELSE s

RECURSIVE RStrip(_)
RStrip(s) ==
  IF s # <<>> /\ s[Len(s)] \in Whitespace
    THEN RStrip(SubSeq(s, 1, Len(s) - 1))
    ELSE s

\* str.strip()
Strip(s) == RStrip(LStrip(s))

\* str.startswith(p)
StartsWith(s, p) == Len(s) >= Len(p) /\ SubSeq(s, 1, Len(p)) = p

\* the slice s[n:]
SliceFrom(s, n) == IF n >= Len(s) THEN <<>> ELSE SubSeq(s, n + 1, Len(s))

\* one character for which str.isdigit() is true: the ASCII digits and the
\* other characters of Unicode category Nd or No-digit, such as U+00B2
IsDigitChar(c) == c \in AsciiDigits \cup {"sup2"}

\* str.isdigit(): non-empty and every character is a digit character
IsDigit(s) == s # <<>> /\ \A i \in 1..Len(s) : IsDigitChar(s[i])

\* what the specification calls a non-negative integer literal: a non-empty
\* run of decimal digits (the strings int() accepts among the modelled ones)
IsIntLiteral(s) == s # <<>> /\ \A i \in 1..Len(s) : s[i] \in AsciiDigits

\* str(x) of an identifier: a str is itself, an int is its decimal digits
DigitOf(n) ==
  CASE n = 0 -> "0" [] n = 1 -> "1" [] n = 2 -> "2" [] n = 3 -> "3"
    [] n = 4 -> "4" [] n = 5 -> "5" [] n = 6 -> "6" [] n = 7 -> "7"
    [] n = 8 -> "8" [] n = 9 -> "9"

RECURSIVE Decimal(_)
Decimal(n) == IF n < 10 THEN <<DigitOf(n)>> ELSE Decimal(n \div 10) \o <<DigitOf(n % 10)>>

\* an identifier as the configuration or the framework supplies it: a str,
\* an int, or None
StrId(s) == [t |-> "str", s |-> s]
IntId(n) == [t |-> "int", n |-> n]
NoneId == [t |-> "none"]

\* str(group_id)
Str(x) ==
  CASE x.t = "str" -> x
    [] x.t = "int" -> StrId(Decimal(x.n))
    [] OTHER -> StrId(<<"N", "o", "n", "e">>)

\* Python truthiness of an identifier
Truthy(x) ==
  CASE x.t = "str" -> x.s # <<>>
    [] x.t = "int" -> x.n # 0
    [] OTHER -> FALSE

(***************************************************************************)
(* Durations: divmod(duration.total_seconds(), 3600), divmod(remainder, 60) *)
(* and int(), on whole seconds.                                            *)
(***************************************************************************)
Hours(d) == d \div 3600

\* the minutes of the whole duration, the hours not taken off
MinutesTotal(d) == d \div 60

Minutes(d) == (d % 3600) \div 60
Seconds(d) == (d % 3600) % 60

(***************************************************************************)
(* Configuration (get_config) and the inputs the environment supplies.     *)
(***************************************************************************)
R1 == <<"1">>
R2 == <<"2">>
Foo == <<"F", "o", "o">>
Bar == <<"B", "a", "r">>
Title == <<"T">>
UnknownTitle == <<"unknown-title">>

\* a RoomConfig is a dict: the key anchor_name may be absent
RC1 == [room_id |-> R1, anchor_name |-> Foo]
RC2 == [room_id |-> R2]

G7 == StrId(<<"7">>)
G8 == StrId(<<"8">>)
G9 == StrId(<<"9">>)

\* the settings the plugin is started in: monitor_list, white_list_groups,
\* check_interval (1h23m is 4980 s), and how many events the framework
\* handles at a time
Config(ml, wl, ci, n) ==
  [monitor_list |-> ml, white_list_groups |-> wl, check_interval |-> ci,
   handlers |-> n]
OneRoomConfigs ==
  {Config(<<>>, <<G7>>, DefaultInterval, 1),
   Config(<<RC1>>, <<G7, IntId(8)>>, 4980, 1)}
TwoRoomConfigs ==
  {Config(<<>>, <<G7>>, DefaultInterval, 1),
   Config(<<RC1, RC2>>, <<G7>>, DefaultInterval, 1)}

\* one room and intervals that put the end of a stream 0 s, 59 s, 1 h less
\* one second, 1 h, 1h23m and 25 h after its start
DurationIntervals == {0, 59, 3599, 3600, 4980, 90000}
DurationConfigs ==
  {Config(<<>>, <<G7>>, DefaultInterval, 1)}
    \cup {Config(<<RC1>>, <<G7>>, ci, 1) : ci \in DurationIntervals}

\* one room, one destination, and two events handled at a time
OverlapConfigs ==
  {Config(<<>>, <<G7>>, DefaultInterval, 2),
   Config(<<RC1>>, <<G7>>, DefaultInterval, 2)}

\* the inbound events: the group ids the framework reports (the last is the
\* empty string) and the texts
EventGroups == {G7, G8, G9, StrId(<<>>)}
EventTexts ==
  {LIVEINFO,
   <<" ", "L", "i", "v", "e", "I", "n", "f", "o", " ", " ", "1", " ">>,
   LIVEINFO \o <<" ", "9">>,
   LIVEINFO \o <<" ", "a", "b", "c">>,
   LIVEINFO \o <<" ", "sup2">>,
   <<"h", "i">>}
Events == [group_id : EventGroups, text : EventTexts]

\* the live_status codes of the status endpoint: 0 offline, 1 live, 2 replay
Statuses == {0, 1, 2}

\* f"主播{room_id}"
GenericName(room_id) == <<"zhubo">> \o room_id

\* room_config.get('anchor_name', f"主播{room_id}")
ConfigName(rc) ==
  IF "anchor_name" \in DOMAIN rc THEN rc.anchor_name ELSE GenericName(rc.room_id)

\* next((r for r in self.monitor_list if r['room_id'] == room_id), None):
\* the index of the first match, 0 for None
RECURSIVE FindFrom(_, _, _)
FindFrom(ml, room_id, i) ==
  IF i > Len(ml) THEN 0
  ELSE IF ml[i].room_id = room_id THEN i
  ELSE FindFrom(ml, room_id, i + 1)

FindConfig(ml, room_id) == FindFrom(ml, room_id, 1)

\* the data object of a status reply with code 0, as read at time t: the
\* start timestamp is optional
Payloads(t) ==
  {[live_status |-> 0, live_time |-> 0], [live_status |-> 2, live_time |-> 0],
   [live_status |-> 1], [live_status |-> 1, live_time |-> t]}

\* check_live_status: the result dict, or None when the reply has another
\* code or anything raised
FetchResults(room_id, t) ==
  {None} \cup {[t |-> "ok", room_id |-> room_id, data |-> d, check_time |-> t] :
                 d \in Payloads(t)}

\* what the anchor-info request comes to: a reply with code 0, or a failure
\* (another code, a timeout, a malformed body)
AnchorReplies ==
  {[t |-> "ok", uname |-> Bar, title |-> Title], [t |-> "failed"]}

\* a fallback whose title is not the sentinel
get_anchor_info_untitled(room_id, reply) ==
  IF reply.t = "ok"
    THEN [name |-> reply.uname, title |-> reply.title]
    ELSE [name |-> GenericName(room_id), title |-> <<>>]

\* lines 56-69: the name and title of the reply; on any failure the generic
\* name and the title '未知标题'
get_anchor_info(room_id, reply) ==
  IF reply.t = "ok"
    THEN [name |-> reply.uname, title |-> reply.title]
    ELSE [name |-> GenericName(room_id), title |-> UnknownTitle]

\* what get_anchor_info may return
AnchorInfos(room_id) == {get_anchor_info(room_id, reply) : reply \in AnchorReplies}

(***************************************************************************)
(* Messages.  An f-string is modelled by the values it interpolates.       *)
(***************************************************************************)
\* f"{actual_name}开播了！\n传送门：https://live.bilibili.com/{room_id}" and,
\* unless the title is '未知标题', "\n标题：{title}"
LiveMessage(name, room_id, title) ==
  IF title # UnknownTitle
    THEN [kind |-> "live", name |-> name, room_id |-> room_id, title |-> title]
    ELSE [kind |-> "live", name |-> name, room_id |-> room_id]

\* f"{actual_name}的直播已结束，一共直播了{int(hours)}时{int(minutes)}分"
EndMessageWithDuration(name, d) ==
  [kind |-> "end", name |-> name, hours |-> Hours(d), minutes |-> Minutes(d)]

\* f"{actual_name}的直播已结束"
EndMessagePlain(name) == [kind |-> "end", name |-> name]

IsNotification(m) == m.kind \in {"live", "end"}

(***************************************************************************)
(* State.                                                                  *)
(***************************************************************************)
VARIABLES
  monitor_list,           \* self.monitor_list
  white_list_groups,      \* self.white_list_groups
  check_interval,         \* self.check_interval
  room_status,            \* self.room_status: room id -> entry
  pending_notifications,  \* self.pending_notifications: key -> list object
  heap,                   \* the list objects: object -> contents
  now,                    \* datetime.now(), whole seconds
  cycle,                  \* iterations of the monitor loop, up to MaxCycles
  mpc,                    \* where monitor_task is
  results,                \* monitor_task: results of the gather
  idx,                    \* monitor_task: position of the for loop in results
  hpc,                    \* where each on_group_message generator is
  hev,                    \* its event: group id and text
  hloc,                   \* its locals
  out,                    \* the results it has yielded
  hist,                   \* history: statuses of the processed polls of a room
  last_ok,                \* history: <<status>> of a room's last successful poll
  base_time,              \* history: start timestamp in the first poll
  enqueued,               \* history: every message enqueued, in order
  emitted,                \* history: every queued message yielded, with its key
  anchor_reply            \* history: the last reply to monitor_task's anchor fetch

cfgvars == <<white_list_groups, check_interval>>
monvars == <<now, cycle, mpc, results, idx>>
hvars == <<hpc, hev, hloc, out>>
ghosts == <<hist, last_ok, base_time, enqueued, emitted, anchor_reply>>
vars == <<monitor_list, white_list_groups, check_interval, room_status,
          pending_notifications, heap, now, cycle, mpc, results, idx,
          hpc, hev, hloc, out, hist, last_ok, base_time, enqueued, emitted,
          anchor_reply>>

RoomIds == {R1, R2}

\* the generators of on_group_message the framework may be running
Handlers == DOMAIN hpc

\* the positions where monitor_task is suspended (await)
MonitorSuspended == {"startup", "idle_sleep", "gather", "anchor", "sleep"}

\* a generator that has run to its end is still the running task until the
\* framework drops it
HandlerRunning == \E h \in Handlers : hpc[h] = "done"

\* the event loop resumes monitor_task at pc only while no task is running
MonitorResumes(pc) == mpc = pc /\ ~HandlerRunning

(***************************************************************************)
(* List objects.  pending_notifications maps a key to a list; a generator  *)
(* draining a list holds a reference to the same object.                   *)
(***************************************************************************)
AllConfigs ==
  OneRoomConfigs \cup TwoRoomConfigs \cup DurationConfigs \cup OverlapConfigs

\* the most keys pending_notifications can hold
MaxKeys == CHOOSE n \in 0..8 :
  /\ \E c \in AllConfigs : Len(c.white_list_groups) = n
  /\ \A c \in AllConfigs : Len(c.white_list_groups) <= n

\* the most generators there can be
MaxSlots == CHOOSE n \in 0..8 :
  /\ \E c \in AllConfigs : c.handlers = n
  /\ \A c \in AllConfigs : c.handlers <= n

ObjIds == 1..(MaxKeys + MaxSlots)

NoEvent == [group_id |-> NoneId, text |-> <<>>]
NoLocals == [room_id |-> <<>>, result |-> None, info |-> None, it_obj |-> 0, it_idx |-> 0]

Refs(pn, hl) ==
  {pn[k] : k \in DOMAIN pn} \cup ({hl[h].it_obj : h \in DOMAIN hl} \ {0})

\* a fresh list object
NewObj(pn, hl) ==
  CHOOSE o \in ObjIds \ Refs(pn, hl) : \A p \in ObjIds \ Refs(pn, hl) : o <= p

\* unreferenced objects are collected
Collect(hp, pn, hl) == [o \in ObjIds |-> IF o \in Refs(pn, hl) THEN hp[o] ELSE <<>>]

\* the contents of the outbox under key k, <<>> when there is no such key
Outbox(k) ==
  IF k \in DOMAIN pending_notifications THEN heap[pending_notifications[k]] ELSE <<>>

InitWith(configs) ==
  /\ \E c \in configs :
       /\ monitor_list = c.monitor_list
       /\ white_list_groups = c.white_list_groups
       /\ check_interval = c.check_interval
       /\ hpc = [h \in 1..c.handlers |-> "idle"]
       /\ hev = [h \in 1..c.handlers |-> NoEvent]
       /\ hloc = [h \in 1..c.handlers |-> NoLocals]
       /\ out = [h \in 1..c.handlers |-> <<>>]
  /\ room_status = [r \in {} |-> None]
  /\ pending_notifications = [k \in {} |-> 0]
  /\ heap = [o \in ObjIds |-> <<>>]
  /\ now = 0
  /\ cycle = 0
  /\ mpc = "startup"
  /\ results = <<>>
  /\ idx = 0
  /\ hist = [r \in RoomIds |-> <<>>]
  /\ last_ok = [r \in RoomIds |-> <<>>]
  /\ base_time = [r \in RoomIds |-> NoTime]
  /\ enqueued = <<>>
  /\ emitted = <<>>
  /\ anchor_reply = None

Init == InitWith(OneRoomConfigs)

(***************************************************************************)
(* monitor_task.                                                           *)
(***************************************************************************)
\* the top of the while loop, up to its first await: lines 81-90
LoopTop ==
  /\ mpc' = IF monitor_list = <<>> THEN "idle_sleep" ELSE "gather"
  /\ UNCHANGED <<monitor_list, cfgvars, room_status, pending_notifications,
                 heap, results, idx, hvars, ghosts>>

\* time stands still once MaxCycles iterations have slept
Tick(d) ==
  IF cycle < MaxCycles
    THEN now' = now + d /\ cycle' = cycle + 1
    ELSE UNCHANGED <<now, cycle>>

\* line 79: await asyncio.sleep(5) returns
Startup ==
  /\ MonitorResumes("startup")
  /\ now' = now + StartupDelay
  /\ UNCHANGED cycle
  /\ LoopTop

\* lines 84-85: await asyncio.sleep(self.check_interval) returns; continue
IdleWake ==
  /\ MonitorResumes("idle_sleep")
  /\ Tick(check_interval)
  /\ LoopTop

\* line 163: await asyncio.sleep(self.check_interval) returns
CycleWake ==
  /\ MonitorResumes("sleep")
  /\ Tick(check_interval)
  /\ LoopTop

\* the results a gather may return: one per room, in the order of the list
GatherResults ==
  {rs \in [1..Len(monitor_list) -> UNION {FetchResults(r, now) : r \in RoomIds}] :
     \A i \in 1..Len(monitor_list) :
       /\ rs[i] \in FetchResults(monitor_list[i].room_id, now)
       /\ cycle >= MaxCycles => rs[i] = None}

\* lines 88-90: await asyncio.gather(*tasks) returns
GatherDone ==
  /\ MonitorResumes("gather")
  /\ \E rs \in GatherResults : results' = rs
  /\ idx' = 1
  /\ mpc' = "proc"
  /\ UNCHANGED <<monitor_list, cfgvars, room_status, pending_notifications,
                 heap, now, cycle, hvars, ghosts>>

\* the result the for loop is at, and what lines 96-106 read from it
Result == results[idx]
RoomId == Result.room_id
Data == Result.data
CurrentStatus == Data.live_status
ConfigIdx == FindConfig(monitor_list, RoomId)
AtResult == mpc = "proc" /\ idx <= Len(results)
AtRoom == AtResult /\ Result # None /\ ConfigIdx # 0
Recorded == RoomId \in DOMAIN room_status

\* history: one more processed poll of the room
Observe(room_id, status) == hist' = [hist EXCEPT ![room_id] = Append(@, status)]

\* an enqueue that binds the key to a new list, the old one and the message
RECURSIVE EnqueueRebinding(_, _, _, _, _)
EnqueueRebinding(pn, hp, hl, groups, message) ==
  IF groups = <<>> THEN [pn |-> pn, heap |-> hp]
  ELSE LET g == Head(groups)
           old == IF g \in DOMAIN pn THEN hp[pn[g]] ELSE <<>>
           pn1 == [k \in DOMAIN pn \cup {g} |->
                     IF k = g THEN NewObj(pn, hl) ELSE pn[k]]
           hp1 == [hp EXCEPT ![pn1[g]] = Append(old, message)]
       IN  EnqueueRebinding(pn1, Collect(hp1, pn1, hl), hl, Tail(groups), message)

\* lines 153-156: the message is appended to the list of every group of the
\* white list, under the key as configured; a missing list is created first
RECURSIVE Enqueue(_, _, _, _, _)
Enqueue(pn, hp, hl, groups, message) ==
  IF groups = <<>> THEN [pn |-> pn, heap |-> hp]
  ELSE LET g == Head(groups)
           pn1 == IF g \in DOMAIN pn THEN pn
                  ELSE [k \in DOMAIN pn \cup {g} |->
                          IF k = g THEN NewObj(pn, hl) ELSE pn[k]]
           hp1 == [hp EXCEPT ![pn1[g]] = Append(@, message)]
       IN  Enqueue(pn1, hp1, hl, Tail(groups), message)

\* lines 150-158: the end of a transition
Notify(rs, message) ==
  /\ room_status' = [rs EXCEPT ![RoomId].last_status = CurrentStatus]
  /\ LET e == Enqueue(pending_notifications, heap, hloc, white_list_groups, message)
     IN  /\ pending_notifications' = e.pn
         /\ heap' = e.heap
  /\ enqueued' = Append(enqueued, message)

\* lines 93-94 and 103-104: continue
ProcSkip ==
  /\ AtResult
  /\ IF Result = None THEN TRUE ELSE ConfigIdx = 0
  /\ idx' = idx + 1
  /\ UNCHANGED <<monitor_list, cfgvars, room_status, pending_notifications,
                 heap, now, cycle, mpc, results, hvars, ghosts>>

\* a baseline that keeps the start timestamp of a room found live
BaselineEntryWithStart(status, data, name) ==
  [last_status |-> status,
   live_start_time |-> IF status = 1 /\ "live_time" \in DOMAIN data
                         THEN data.live_time ELSE NoTime,
   anchor_name |-> name]

\* lines 110-114: the entry recorded for a room's first result
BaselineEntry(status, data, name) ==
  [last_status |-> status, live_start_time |-> NoTime, anchor_name |-> name]

\* lines 109-116: the first result of a room is its baseline
ProcBaseline ==
  /\ AtRoom
  /\ ~Recorded
  /\ room_status' =
       [r \in DOMAIN room_status \cup {RoomId} |->
          IF r = RoomId
            THEN BaselineEntry(CurrentStatus, Data,
                               ConfigName(monitor_list[ConfigIdx]))
            ELSE room_status[r]]
  /\ idx' = idx + 1
  /\ Observe(RoomId, CurrentStatus)
  /\ base_time' = [base_time EXCEPT ![RoomId] =
                     IF "live_time" \in DOMAIN Data THEN Data.live_time ELSE NoTime]
  /\ UNCHANGED <<monitor_list, cfgvars, pending_notifications, heap, now, cycle,
                 mpc, results, hvars, last_ok, enqueued, emitted, anchor_reply>>

\* line 121 false: the status is the recorded one
ProcSame ==
  /\ AtRoom
  /\ Recorded
  /\ CurrentStatus = room_status[RoomId].last_status
  /\ idx' = idx + 1
  /\ Observe(RoomId, CurrentStatus)
  /\ UNCHANGED <<monitor_list, cfgvars, room_status, pending_notifications, heap,
                 now, cycle, mpc, results, hvars, last_ok, base_time, enqueued,
                 emitted, anchor_reply>>

\* line 124 raises (KeyError: the reply carries no live_time); the except
\* clause of line 160 catches it outside the for loop
ProcRaise ==
  /\ AtRoom
  /\ Recorded
  /\ CurrentStatus # room_status[RoomId].last_status
  /\ CurrentStatus = 1
  /\ "live_time" \notin DOMAIN Data
  /\ mpc' = "except"
  /\ Observe(RoomId, CurrentStatus)
  /\ UNCHANGED <<monitor_list, cfgvars, room_status, pending_notifications, heap,
                 now, cycle, results, idx, hvars, last_ok, base_time, enqueued,
                 emitted, anchor_reply>>

\* a go-live that records the new status before get_anchor_info is awaited
ProcGoLiveEarly ==
  /\ AtRoom
  /\ Recorded
  /\ CurrentStatus # room_status[RoomId].last_status
  /\ CurrentStatus = 1
  /\ "live_time" \in DOMAIN Data
  /\ room_status' = [room_status EXCEPT ![RoomId].live_start_time = Data.live_time,
                                        ![RoomId].last_status = CurrentStatus]
  /\ mpc' = "anchor"
  /\ UNCHANGED <<monitor_list, cfgvars, pending_notifications, heap, now, cycle,
                 results, idx, hvars, ghosts>>

\* lines 123-128: the room went live; the start time is recorded and
\* get_anchor_info is awaited
ProcGoLive ==
  /\ AtRoom
  /\ Recorded
  /\ CurrentStatus # room_status[RoomId].last_status
  /\ CurrentStatus = 1
  /\ "live_time" \in DOMAIN Data
  /\ room_status' = [room_status EXCEPT ![RoomId].live_start_time = Data.live_time]
  /\ mpc' = "anchor"
  /\ UNCHANGED <<monitor_list, cfgvars, pending_notifications, heap, now, cycle,
                 results, idx, hvars, ghosts>>

\* lines 138-148: the message of the else branch
EndMessage(entry, t) ==
  IF entry.live_start_time # NoTime
    THEN EndMessageWithDuration(entry.anchor_name, t - entry.live_start_time)
    ELSE EndMessagePlain(entry.anchor_name)

\* lines 137-158: any other change of status is taken as the end of a stream
ProcOffline ==
  /\ AtRoom
  /\ Recorded
  /\ CurrentStatus # room_status[RoomId].last_status
  /\ CurrentStatus # 1
  /\ Notify(room_status, EndMessage(room_status[RoomId], now))
  /\ idx' = idx + 1
  /\ Observe(RoomId, CurrentStatus)
  /\ UNCHANGED <<monitor_list, cfgvars, now, cycle, mpc, results, hvars,
                 last_ok, base_time, emitted, anchor_reply>>

\* lines 128-158: get_anchor_info returns and the transition is completed
AnchorDone ==
  /\ MonitorResumes("anchor")
  /\ \E reply \in AnchorReplies :
       LET anchor_info == get_anchor_info(RoomId, reply)
           actual_name == anchor_info.name
           rc == monitor_list[ConfigIdx]
       IN  /\ anchor_reply' = reply
           /\ monitor_list' =
                [monitor_list EXCEPT ![ConfigIdx] =
                   [k \in DOMAIN rc \cup {"anchor_name"} |->
                      IF k = "anchor_name" THEN actual_name ELSE rc[k]]]
           /\ Notify([room_status EXCEPT ![RoomId].anchor_name = actual_name],
                     LiveMessage(actual_name, RoomId, anchor_info.title))
  /\ idx' = idx + 1
  /\ mpc' = "proc"
  /\ Observe(RoomId, CurrentStatus)
  /\ UNCHANGED <<cfgvars, now, cycle, results, hvars, last_ok, base_time,
                 emitted>>

\* history: the statuses of this cycle's successful polls
Polled ==
  [r \in RoomIds |->
     IF \E i \in 1..Len(results) : results[i] # None /\ results[i].room_id = r
       THEN <<(CHOOSE x \in {results[i] : i \in 1..Len(results)} \ {None} :
                 x.room_id = r).data.live_status>>
       ELSE last_ok[r]]

\* the for loop is exhausted; line 163: await asyncio.sleep
CycleEnd ==
  /\ mpc = "proc"
  /\ idx > Len(results)
  /\ mpc' = "sleep"
  /\ last_ok' = Polled
  /\ UNCHANGED <<monitor_list, cfgvars, room_status, pending_notifications, heap,
                 now, cycle, results, idx, hvars, hist, base_time, enqueued,
                 emitted, anchor_reply>>

\* an exception that leaves the while loop ends the task
ExceptEscapes ==
  /\ mpc = "except"
  /\ mpc' = "stopped"
  /\ UNCHANGED <<monitor_list, cfgvars, room_status, pending_notifications, heap,
                 now, cycle, results, idx, hvars, ghosts>>

\* lines 160-163: the exception is logged; await asyncio.sleep
Except ==
  /\ mpc = "except"
  /\ mpc' = "sleep"
  /\ last_ok' = Polled
  /\ UNCHANGED <<monitor_list, cfgvars, room_status, pending_notifications, heap,
                 now, cycle, results, idx, hvars, hist, base_time, enqueued,
                 emitted, anchor_reply>>

Monitor ==
  \/ Startup \/ IdleWake \/ CycleWake \/ GatherDone
  \/ ProcSkip \/ ProcBaseline \/ ProcSame \/ ProcRaise \/ ProcGoLive
  \/ ProcOffline \/ AnchorDone \/ CycleEnd \/ Except

(***************************************************************************)
(* on_group_message and get_live_info.  The framework starts one generator *)
(* per event, while no task is running.                                    *)
(***************************************************************************)
\* a check that only looks at the id being non-empty
is_group_non_empty(group_id) == Truthy(group_id)

\* lines 71-75
is_group_in_white_list(group_id) ==
  IF ~Truthy(group_id) THEN FALSE
  ELSE \E i \in 1..Len(white_list_groups) : Str(white_list_groups[i]) = Str(group_id)

\* line 238: event.message_str.strip().lower()
MessageStr(text) == Lower(Strip(text))

\* line 241
IsLiveinfo(text) == MessageStr(text) = LIVEINFO

\* line 246
IsRoomQuery(text) ==
  ~IsLiveinfo(text) /\ StartsWith(MessageStr(text), LIVEINFO \o <<" ">>)

\* line 247: message_str[9:].strip()
QueryArg(text) == Strip(SliceFrom(MessageStr(text), LiveinfoPrefixLen))

\* room_status.get(room_id, {}).get(key) of lines 185 and 211-216
StatusGet(room_id) ==
  IF room_id \in DOMAIN room_status
    THEN room_status[room_id]
    ELSE [last_status |-> NoTime, live_start_time |-> NoTime]

\* lines 207-222: the lines of one room in the aggregate report
RoomLines(rc) ==
  LET st == StatusGet(rc.room_id)
      live == st.last_status = 1
  IN  [name |-> ConfigName(rc), room_id |-> rc.room_id, live |-> live,
       duration |-> IF live /\ st.live_start_time # NoTime
                      THEN <<Hours(now - st.live_start_time),
                             Minutes(now - st.live_start_time)>>
                      ELSE <<>>]

\* lines 203-227: get_live_info() without a room id; it awaits nothing
AggregateReport ==
  IF monitor_list = <<>> THEN [kind |-> "no_rooms"]
  ELSE [kind |-> "all",
        rooms |-> [i \in 1..Len(monitor_list) |-> RoomLines(monitor_list[i])],
        groups |-> [i \in 1..Len(white_list_groups) |-> Str(white_list_groups[i]).s]]

\* line 172, line 176, line 252
NotFoundReply(room_id) == [kind |-> "not_found", room_id |-> room_id]
CannotGetReply(room_id) == [kind |-> "cannot_get", room_id |-> room_id]
UsageReply == [kind |-> "usage"]

\* lines 178-191 and 197-198: the single-room report before the title
RoomReport(room_id, result) ==
  LET live == result.data.live_status = 1
      start_time == StatusGet(room_id).live_start_time
      timed == live /\ start_time # NoTime
  IN  [kind |-> "room", room_id |-> room_id,
       name |-> ConfigName(monitor_list[FindConfig(monitor_list, room_id)]),
       live |-> live,
       start_time |-> IF timed THEN start_time ELSE NoTime,
       duration |-> IF timed
                      THEN <<Hours(now - start_time), Minutes(now - start_time),
                             Seconds(now - start_time)>>
                      ELSE <<>>,
       check_time |-> result.check_time]

\* line 195: info += f"标题: {anchor_info['title']}\n"
WithTitle(info, title) ==
  [k \in DOMAIN info \cup {"title"} |-> IF k = "title" THEN title ELSE info[k]]

\* a generator starts only when it is idle and no task is running
CanStart(h) == hpc[h] = "idle" /\ mpc \in MonitorSuspended /\ ~HandlerRunning

\* a suspended generator is resumed only while no task is running
CanResume(h, pc) == hpc[h] = pc /\ mpc \in MonitorSuspended /\ ~HandlerRunning

\* line 243, 250, 252: yield event.plain_result(info)
YieldReply(h, ev, info) ==
  /\ hpc' = [hpc EXCEPT ![h] = "reply"]
  /\ hev' = [hev EXCEPT ![h] = ev]
  /\ out' = [out EXCEPT ![h] = <<info>>]
  /\ UNCHANGED <<monitor_list, cfgvars, room_status, pending_notifications, heap,
                 monvars, ghosts>>

\* history: the queued message m is yielded to the destination of key k
Emit(k, m) == emitted' = Append(emitted, [to |-> k, message |-> m])

\* lines 255-258: the check of the outbox under str(group_id) and the first
\* yield of the for loop over the list
StartDrain(h, ev, output) ==
  LET group_id_str == Str(ev.group_id)
      pn == pending_notifications
  IN  /\ hev' = [hev EXCEPT ![h] = ev]
      /\ IF group_id_str \in DOMAIN pn /\ heap[pn[group_id_str]] # <<>>
           THEN /\ hpc' = [hpc EXCEPT ![h] = "drain"]
                /\ out' = [out EXCEPT ![h] = Append(output, heap[pn[group_id_str]][1])]
                /\ hloc' = [hloc EXCEPT ![h] =
                              [NoLocals EXCEPT !.it_obj = pn[group_id_str], !.it_idx = 1]]
                /\ Emit(group_id_str, heap[pn[group_id_str]][1])
           ELSE /\ hpc' = [hpc EXCEPT ![h] = "done"]
                /\ out' = [out EXCEPT ![h] = output]
                /\ hloc' = [hloc EXCEPT ![h] = NoLocals]
                /\ UNCHANGED emitted
      /\ UNCHANGED <<monitor_list, cfgvars, room_status, pending_notifications,
                     heap, monvars, hist, last_ok, base_time, enqueued,
                     anchor_reply>>

\* lines 232-236: the group is not in the white list
EventRejected(h) ==
  /\ CanStart(h)
  /\ \E ev \in Events :
       /\ ~is_group_in_white_list(ev.group_id)
       /\ hev' = [hev EXCEPT ![h] = ev]
  /\ hpc' = [hpc EXCEPT ![h] = "done"]
  /\ out' = [out EXCEPT ![h] = <<>>]
  /\ UNCHANGED <<monitor_list, cfgvars, room_status, pending_notifications, heap,
                 monvars, hloc, ghosts>>

\* lines 241-243: "liveinfo"
EventLiveinfo(h) ==
  /\ CanStart(h)
  /\ \E ev \in Events :
       /\ is_group_in_white_list(ev.group_id)
       /\ IsLiveinfo(ev.text)
       /\ YieldReply(h, ev, AggregateReport)
  /\ UNCHANGED hloc

\* lines 246-250 and 167-174: "liveinfo <digits>" for a configured room;
\* check_live_status is awaited
EventRoomQuery(h) ==
  /\ CanStart(h)
  /\ \E ev \in Events :
       /\ is_group_in_white_list(ev.group_id)
       /\ IsRoomQuery(ev.text)
       /\ IsDigit(QueryArg(ev.text))
       /\ FindConfig(monitor_list, QueryArg(ev.text)) # 0
       /\ hev' = [hev EXCEPT ![h] = ev]
       /\ hloc' = [hloc EXCEPT ![h] = [NoLocals EXCEPT !.room_id = QueryArg(ev.text)]]
  /\ hpc' = [hpc EXCEPT ![h] = "status_fetch"]
  /\ out' = [out EXCEPT ![h] = <<>>]
  /\ UNCHANGED <<monitor_list, cfgvars, room_status, pending_notifications, heap,
                 monvars, ghosts>>

\* lines 246-250 and 167-172: "liveinfo <digits>" for no configured room
EventRoomUnknown(h) ==
  /\ CanStart(h)
  /\ \E ev \in Events :
       /\ is_group_in_white_list(ev.group_id)
       /\ IsRoomQuery(ev.text)
       /\ IsDigit(QueryArg(ev.text))
       /\ FindConfig(monitor_list, QueryArg(ev.text)) = 0
       /\ YieldReply(h, ev, NotFoundReply(QueryArg(ev.text)))
  /\ UNCHANGED hloc

\* lines 246-252: "liveinfo <value>", the value not all digits
EventUsage(h) ==
  /\ CanStart(h)
  /\ \E ev \in Events :
       /\ is_group_in_white_list(ev.group_id)
       /\ IsRoomQuery(ev.text)
       /\ ~IsDigit(QueryArg(ev.text))
       /\ YieldReply(h, ev, UsageReply)
  /\ UNCHANGED hloc

\* no command: lines 255-261 follow at once
EventOther(h) ==
  /\ CanStart(h)
  /\ \E ev \in Events :
       /\ is_group_in_white_list(ev.group_id)
       /\ ~IsLiveinfo(ev.text)
       /\ ~IsRoomQuery(ev.text)
       /\ StartDrain(h, ev, <<>>)

\* a report that also stores the fetched status in the room's entry
StatusFetchedCaches(h) ==
  /\ CanResume(h, "status_fetch")
  /\ \E result \in FetchResults(hloc[h].room_id, now) \ {None} :
       /\ hpc' = [hpc EXCEPT ![h] = "reply"]
       /\ out' = [out EXCEPT ![h] = <<RoomReport(hloc[h].room_id, result)>>]
       /\ room_status' =
            IF hloc[h].room_id \in DOMAIN room_status
              THEN [room_status EXCEPT ![hloc[h].room_id].last_status =
                                         result.data.live_status]
              ELSE room_status
  /\ hloc' = [hloc EXCEPT ![h] = NoLocals]
  /\ UNCHANGED <<monitor_list, cfgvars, pending_notifications, heap, monvars,
                 hev, ghosts>>

\* lines 174-198: check_live_status returns in get_live_info
StatusFetched(h) ==
  /\ CanResume(h, "status_fetch")
  /\ \E result \in FetchResults(hloc[h].room_id, now) :
       IF result = None
         THEN /\ YieldReply(h, hev[h], CannotGetReply(hloc[h].room_id))
              /\ hloc' = [hloc EXCEPT ![h] = NoLocals]
       ELSE IF result.data.live_status = 1
         THEN /\ hpc' = [hpc EXCEPT ![h] = "anchor_fetch"]
              /\ hloc' = [hloc EXCEPT ![h].result = result,
                                      ![h].info = RoomReport(hloc[h].room_id, result)]
              /\ UNCHANGED <<monitor_list, cfgvars, room_status,
                             pending_notifications, heap, monvars, hev, out, ghosts>>
         ELSE /\ YieldReply(h, hev[h], RoomReport(hloc[h].room_id, result))
              /\ hloc' = [hloc EXCEPT ![h] = NoLocals]

\* lines 194-200: get_anchor_info returns in get_live_info
AnchorFetched(h) ==
  /\ CanResume(h, "anchor_fetch")
  /\ \E anchor_info \in AnchorInfos(hloc[h].room_id) :
       YieldReply(h, hev[h], WithTitle(hloc[h].info, anchor_info.title))
  /\ hloc' = [hloc EXCEPT ![h] = NoLocals]

\* a generator that ends after its command reply
ReplyResumedReturns(h) ==
  /\ CanResume(h, "reply")
  /\ hpc' = [hpc EXCEPT ![h] = "done"]
  /\ UNCHANGED <<monitor_list, cfgvars, room_status, pending_notifications, heap,
                 monvars, hev, hloc, out, ghosts>>

\* the generator is resumed after the reply: lines 255-258
ReplyResumed(h) ==
  /\ CanResume(h, "reply")
  /\ StartDrain(h, hev[h], out[h])

\* the key keeps its list
KeepList(pn, key, obj) == pn

\* line 261: self.pending_notifications[group_id_str] = []
BindNewList(pn, key, obj) == [pn EXCEPT ![key] = obj]

\* the generator is resumed after a queued message: the for loop of line 257
\* goes on over the same list object, then line 261 binds the key to a new list
DrainResumed(h) ==
  /\ CanResume(h, "drain")
  /\ LET list == heap[hloc[h].it_obj]
         i == hloc[h].it_idx
         group_id_str == Str(hev[h].group_id)
     IN  IF i < Len(list)
           THEN /\ out' = [out EXCEPT ![h] = Append(@, list[i + 1])]
                /\ hloc' = [hloc EXCEPT ![h].it_idx = i + 1]
                /\ Emit(group_id_str, list[i + 1])
                /\ UNCHANGED <<hpc, pending_notifications, heap>>
           ELSE LET hl == [hloc EXCEPT ![h] = NoLocals]
                    new == NewObj(pending_notifications, hl)
                    pn == BindNewList(pending_notifications, group_id_str, new)
                IN  /\ hloc' = hl
                    /\ pending_notifications' = pn
                    /\ heap' = Collect([heap EXCEPT ![new] = <<>>], pn, hl)
                    /\ hpc' = [hpc EXCEPT ![h] = "done"]
                    /\ UNCHANGED <<out, emitted>>
  /\ UNCHANGED <<monitor_list, cfgvars, room_status, monvars, hev, hist, last_ok,
                 base_time, enqueued, anchor_reply>>

\* the generator is exhausted and the framework drops it
Return(h) ==
  /\ hpc[h] = "done"
  /\ hpc' = [hpc EXCEPT ![h] = "idle"]
  /\ hev' = [hev EXCEPT ![h] = NoEvent]
  /\ out' = [out EXCEPT ![h] = <<>>]
  /\ UNCHANGED <<monitor_list, cfgvars, room_status, pending_notifications, heap,
                 monvars, hloc, ghosts>>

Responder ==
  \E h \in Handlers :
    \/ EventRejected(h) \/ EventLiveinfo(h) \/ EventRoomQuery(h)
    \/ EventRoomUnknown(h) \/ EventUsage(h) \/ EventOther(h)
    \/ StatusFetched(h) \/ AnchorFetched(h) \/ ReplyResumed(h)
    \/ DrainResumed(h) \/ Return(h)

Next == Monitor \/ Responder

\* one configured room, or none; one event at a time
Spec == Init /\ [][Next]_vars

\* two configured rooms, while no event arrives
InitRooms == InitWith(TwoRoomConfigs)
SpecRooms == InitRooms /\ [][Monitor]_vars

\* monitor_task alone, which the event loop resumes whenever what it awaits
\* is over: a sleep ends, and every fetch ends by its timeout (10 s and 5 s)
SpecLive == Init /\ [][Monitor]_vars /\ WF_vars(Monitor)

\* two generators at a time for texts that are no command, so that their
\* drains overlap each other and the enqueues of monitor_task
InitOverlap == InitWith(OverlapConfigs)
Overlap ==
  \/ Monitor
  \/ \E h \in Handlers : EventOther(h) \/ DrainResumed(h) \/ Return(h)
SpecOverlap == InitOverlap /\ [][Overlap]_vars

\* monitor_task alone with one room, for each of the intervals
InitDuration == InitWith(DurationConfigs)
SpecDuration == InitDuration /\ [][Monitor]_vars

(***************************************************************************)
(* Vocabulary of the properties.                                           *)
(***************************************************************************)
\* the contents of the outbox under key k in the next state
OutboxNext(k) ==
  IF k \in DOMAIN pending_notifications'
    THEN heap'[pending_notifications'[k]]
    ELSE <<>>

AllKeys == DOMAIN pending_notifications \cup DOMAIN pending_notifications'

\* the entries of the white list
WhiteKeys == {white_list_groups[i] : i \in 1..Len(white_list_groups)}

\* the destination is in the allow-list, by string-normalized equality
Allowed(group_id) == \E g \in WhiteKeys : Str(g) = Str(group_id)

\* monitor_task is processing the successful poll of room r
Processing(r) ==
  /\ mpc \in {"proc", "anchor"}
  /\ idx \in 1..Len(results)
  /\ results[idx] # None
  /\ results[idx].room_id = r

\* this step ends the processing of the result at idx
Completes == idx' = idx + 1 \/ mpc' = "except"

\* this step enqueues nothing / one message to the outbox of every entry
NothingEnqueued == \A k \in AllKeys : OutboxNext(k) = Outbox(k)
OneEnqueued == \A g \in WhiteKeys : Len(OutboxNext(g)) = Len(Outbox(g)) + 1
EnqueuedTo(m) == \A g \in WhiteKeys : OutboxNext(g) = Append(Outbox(g), m)

\* the queued notifications among the outputs of a generator
RECURSIVE Notifications(_)
Notifications(o) ==
  IF o = <<>> THEN <<>>
  ELSE IF IsNotification(Head(o)) THEN <<Head(o)>> \o Notifications(Tail(o))
  ELSE Notifications(Tail(o))

\* s occurs in t as a run of consecutive elements
IsSegment(s, t) ==
  \E b \in 0..Len(t) : b + Len(s) <= Len(t) /\ SubSeq(t, b + 1, b + Len(s)) = s

\* this step ends the generator h
Finishes(h) == hpc[h] # "done" /\ hpc'[h] = "done"

\* how often m occurs in the sequence s
Count(s, m) == Cardinality({i \in 1..Len(s) : s[i] = m})

\* how often m has been yielded as a queued message of key k
EmittedCount(k, m) == Count(emitted, [to |-> k, message |-> m])

\* what the generator draining key k has still to yield, or the outbox of k
\* when no generator is draining it
Unsent(k) ==
  IF \E h \in Handlers : hpc[h] = "drain" /\ Str(hev[h].group_id) = k
    THEN LET h == CHOOSE h \in Handlers :
                    hpc[h] = "drain" /\ Str(hev[h].group_id) = k
         IN  SliceFrom(heap[hloc[h].it_obj], hloc[h].it_idx)
    ELSE Outbox(k)

(***************************************************************************)
(* C1.  The first successful poll of a room that monitor_task processes    *)
(* only records the observed status and enqueues nothing; the second       *)
(* enqueues a notification if and only if its status differs from the one  *)
(* the first recorded.                                                     *)
(***************************************************************************)
C1_BaselineThenIff ==
  [][\A r \in RoomIds :
       Processing(r) /\ Completes =>
         /\ Len(hist[r]) = 0 =>
              /\ NothingEnqueued
              /\ r \in DOMAIN room_status'
              /\ room_status'[r].last_status = CurrentStatus
         /\ Len(hist[r]) = 1 =>
              IF CurrentStatus # hist[r][1] THEN OneEnqueued ELSE NothingEnqueued
    ]_vars

(***************************************************************************)
(* C2.  Each change of status between two consecutive successful polls of  *)
(* a room appends exactly one message to the outbox of every entry of the  *)
(* white list, and a poll with the status of the previous one appends      *)
(* nothing.                                                                *)
(***************************************************************************)
C2_OneMessagePerChange ==
  [][\A r \in RoomIds :
       Processing(r) /\ Completes /\ last_ok[r] # <<>> =>
         IF CurrentStatus # last_ok[r][1] THEN OneEnqueued ELSE NothingEnqueued
    ]_vars

C5_StatusIsLastPoll ==
  /\ [](mpc = "sleep" =>
          \A r \in RoomIds :
            last_ok[r] # <<>> =>
              r \in DOMAIN room_status /\ room_status[r].last_status = last_ok[r][1])
  /\ [][mpc = "proc" /\ idx \in 1..Len(results) /\ results[idx] = None
          /\ idx' # idx =>
            UNCHANGED <<room_status, pending_notifications, heap>>]_vars

(***************************************************************************)
(* C6.  When the processing of one room's result raises, every other room  *)
(* whose fetch succeeded in the same cycle still has its result processed  *)
(* in that cycle: when the cycle is over, no fetched result is left behind *)
(* the position of the for loop.                                           *)
(***************************************************************************)
C6_RaiseDoesNotAbortCycle ==
  mpc = "sleep" =>
    \A i \in 1..Len(results) : results[i] # None => i <= idx

(***************************************************************************)
(* C7.  As claimed: the first three polls of a room observe LIVE with      *)
(* start timestamp T0, LIVE, OFFLINE; the message enqueued at the third    *)
(* carries the duration from T0 to the time of that poll.                  *)
(***************************************************************************)
LiveLiveOffline(r) ==
  /\ Processing(r)
  /\ Completes
  /\ hist[r] = <<1, 1>>
  /\ base_time[r] # NoTime
  /\ CurrentStatus = 0

C7_Original_DurationFromT0 ==
  [][\A r \in RoomIds :
       LiveLiveOffline(r) =>
         EnqueuedTo(EndMessageWithDuration(room_status[r].anchor_name,
                                           now - base_time[r]))
    ]_vars

(***************************************************************************)
(* C7, amended.  In that case the message enqueued to every entry of the   *)
(* white list is the form without a duration, made of the recorded name    *)
(* alone: the baseline records no start time.                              *)
(***************************************************************************)
C7_PlainEndMessage ==
  [][\A r \in RoomIds :
       LiveLiveOffline(r) =>
         EnqueuedTo(EndMessagePlain(room_status[r].anchor_name))
    ]_vars

\* the third poll of LIVE, LIVE, OFFLINE has just been processed
C7_Witness ==
  /\ hist[R1] = <<1, 1, 0>>
  /\ base_time[R1] # NoTime
  /\ mpc = "proc"
  /\ enqueued = <<EndMessagePlain(Foo)>>
  /\ Outbox(G7) = <<EndMessagePlain(Foo)>>

(***************************************************************************)
(* C8.  For an allowed destination the flush happens whatever the text of  *)
(* the event: once command handling is over the generator goes on with the *)
(* first queued message if there is one, it never ends leaving a message   *)
(* in the outbox, and a command reply precedes every queued message.       *)
(***************************************************************************)
C8_FlushAfterAnyText ==
  /\ [][\A h \in Handlers :
          /\ (hpc[h] \in {"idle", "reply"} /\ hpc'[h] \in {"drain", "done"}
                /\ Allowed(hev'[h].group_id)) =>
               LET before == IF hpc[h] = "idle" THEN <<>> ELSE out[h]
                   queue == Outbox(Str(hev'[h].group_id))
               IN  IF queue # <<>>
                     THEN hpc'[h] = "drain" /\ out'[h] = Append(before, queue[1])
                     ELSE hpc'[h] = "done" /\ out'[h] = before
          /\ (Finishes(h) /\ Allowed(hev'[h].group_id)) =>
               OutboxNext(Str(hev'[h].group_id)) = <<>>
       ]_vars
  /\ [](\A h \in Handlers :
          \A i, j \in 1..Len(out[h]) :
            i < j /\ IsNotification(out[h][i]) => IsNotification(out[h][j]))

\* an invalid command has been answered and a queued message delivered
\* after the answer
C8_Witness ==
  \E h \in Handlers :
    /\ hpc[h] = "done"
    /\ Len(out[h]) >= 2
    /\ out[h][1] = UsageReply
    /\ IsNotification(out[h][2])

(***************************************************************************)
(* C9.  The monitor loop does not end on an error: a cycle whose           *)
(* processing raised, like any other, is followed by the sleep of the      *)
(* interval and by another polling cycle.                                  *)
(***************************************************************************)
C9_LoopGoesOn ==
  /\ (mpc = "except") ~> (mpc = "sleep")
  /\ (mpc = "sleep") ~> (mpc = "gather")
  /\ (mpc = "gather") ~> (mpc = "sleep")

\* a new polling cycle has started after a cycle that raised: the room was
\* seen live, and its recorded status is still the one before
C9_Witness ==
  /\ mpc = "gather"
  /\ Len(hist[R1]) = 2
  /\ hist[R1][2] = 1
  /\ room_status[R1].last_status = 0

(***************************************************************************)
(* C10.  For an allowed destination, the text "liveinfo <value>" with a    *)
(* value that is not a non-negative integer literal yields the usage-error *)
(* text as its one command output, fetches no status, changes no           *)
(* RoomStatus entry, and is followed by the flush alone.                   *)
(***************************************************************************)
BadRoomQuery(ev) ==
  /\ Allowed(ev.group_id)
  /\ StartsWith(MessageStr(ev.text), LIVEINFO \o <<" ">>)
  /\ ~IsIntLiteral(QueryArg(ev.text))

C10_UsageErrorOnly ==
  /\ [](\A h \in Handlers :
          hpc[h] # "idle" /\ BadRoomQuery(hev[h]) =>
            /\ hpc[h] \notin {"status_fetch", "anchor_fetch"}
            /\ out[h] # <<>>
            /\ out[h][1] = UsageReply
            /\ \A j \in 2..Len(out[h]) : IsNotification(out[h][j]))
  /\ [][\A h \in Handlers :
          hpc[h] = "idle" /\ hpc'[h] # "idle" /\ BadRoomQuery(hev'[h]) =>
            UNCHANGED <<room_status, pending_notifications, heap>>]_vars

(***************************************************************************)
(* C11.  When a stream whose start time is recorded ends D >= 0 whole      *)
(* seconds after that time, the message enqueued carries the duration text *)
(* of H hours and M minutes where 0 <= M <= 59 and H hours and M minutes   *)
(* are the whole minutes of D: 3600 H + 60 M <= D < 3600 H + 60 M + 60.    *)
(* 1h23m gives 1 and 23, and 0 s gives 0 and 0.                            *)
(***************************************************************************)
C11_DurationText ==
  [][\A r \in RoomIds :
       (/\ Processing(r)
        /\ Completes
        /\ r \in DOMAIN room_status
        /\ CurrentStatus # room_status[r].last_status
        /\ CurrentStatus # 1
        /\ room_status[r].live_start_time # NoTime
        /\ now - room_status[r].live_start_time >= 0) =>
         LET D == now - room_status[r].live_start_time
         IN  \E H \in 0..(D \div 3600), M \in 0..59 :
               /\ 3600 * H + 60 * M <= D
               /\ D < 3600 * H + 60 * M + 60
               /\ EnqueuedTo([kind |-> "end", name |-> room_status[r].anchor_name,
                              hours |-> H, minutes |-> M])
               /\ D = 4980 => H = 1 /\ M = 23
               /\ D = 0 => H = 0 /\ M = 0
    ]_vars

\* a stream has ended 1h23m after its recorded start and the message is in
\* the outbox
C11_Witness ==
  /\ R1 \in DOMAIN room_status
  /\ room_status[R1].last_status = 0
  /\ room_status[R1].live_start_time # NoTime
  /\ now - room_status[R1].live_start_time = 4980
  /\ Len(Outbox(G7)) = 2
  /\ Outbox(G7)[2].kind = "end"
  /\ Outbox(G7)[2].hours = 1
  /\ Outbox(G7)[2].minutes = 23

(***************************************************************************)
(* C12.  When the anchor-info fetch of an OFFLINE to LIVE change fails,    *)
(* the change is still completed: the for loop goes on, the recorded       *)
(* status of the room is LIVE, the start time of the poll is recorded, and *)
(* exactly one go-live message, with the generic name of the room id and   *)
(* no title line, is appended to the outbox of every entry of the white    *)
(* list.                                                                   *)
(***************************************************************************)
C12_AnchorFailureKeepsTransition ==
  [][\A r \in RoomIds :
       (/\ Processing(r)
        /\ mpc = "anchor"
        /\ mpc' # "anchor"
        /\ anchor_reply'.t = "failed") =>
         /\ room_status[r].last_status # 1
         /\ mpc' = "proc"
         /\ idx' = idx + 1
         /\ room_status'[r].last_status = 1
         /\ room_status'[r].live_start_time = Data.live_time
         /\ room_status'[r].live_start_time # NoTime
         /\ EnqueuedTo([kind |-> "live", name |-> GenericName(r), room_id |-> r])
         /\ Len(enqueued') = Len(enqueued) + 1
    ]_vars

\* a room has gone live while its anchor-info fetch failed, and the message
\* with the generic name is in the outbox
C12_Witness ==
  /\ mpc = "proc"
  /\ anchor_reply = [t |-> "failed"]
  /\ R1 \in DOMAIN room_status
  /\ room_status[R1].last_status = 1
  /\ room_status[R1].live_start_time = now
  /\ Outbox(G7) = <<[kind |-> "live", name |-> GenericName(R1), room_id |-> R1]>>

(***************************************************************************)
(* C13.  No step of on_group_message or get_live_info (the aggregate       *)
(* report, the single-room report and its fetches, the usage error, a text *)
(* that is no command, the drain) adds, removes or changes an entry of     *)
(* room_status, even when the status just fetched differs from the         *)
(* recorded one.                                                           *)
(***************************************************************************)
C13_ResponderKeepsRoomStatus ==
  [][hvars' # hvars => UNCHANGED room_status]_vars

\* a single-room report has just said that the room is live while its
\* recorded status is offline
C13_Witness ==
  \E h \in Handlers :
    /\ hpc[h] = "reply"
    /\ out[h][1].kind = "room"
    /\ out[h][1].room_id = R1
    /\ out[h][1].live
    /\ out[h][1].check_time = now
    /\ R1 \in DOMAIN room_status
    /\ room_status[R1].last_status = 0

(***************************************************************************)
(* C14.  With two events of one allowed destination handled at a time and  *)
(* monitor_task enqueuing in between, every message enqueued for the       *)
(* destination is yielded exactly once over all generators: never more     *)
(* often than it was enqueued, and, once no generator is at work, each     *)
(* message has been yielded or is still in the outbox.                     *)
(***************************************************************************)
C14_EmittedExactlyOnce ==
  \A k \in DOMAIN pending_notifications :
    \A i \in 1..Len(enqueued) :
      LET m == enqueued[i]
      IN  /\ EmittedCount(k, m) <= Count(enqueued, m)
          /\ (\A h \in Handlers : hpc[h] = "idle") =>
                EmittedCount(k, m) + Count(Outbox(k), m) = Count(enqueued, m)

(***************************************************************************)
(* C15.  With one generator at a time, a message that monitor_task appends *)
(* to an outbox, also while the generator is suspended in a fetch, at a    *)
(* reply or between two queued messages, is never lost: at every moment    *)
(* each message enqueued has been yielded or is still to be yielded by the *)
(* generator draining the outbox or, when none is draining, is in the      *)
(* outbox.                                                                 *)
(***************************************************************************)
C15_AppendedWhileSuspendedNotLost ==
  \A k \in DOMAIN pending_notifications :
    \A i \in 1..Len(enqueued) :
      LET m == enqueued[i]
      IN  EmittedCount(k, m) + Count(Unsent(k), m) = Count(enqueued, m)

\* a generator fetched the status of a room before anything was enqueued,
\* and after its report it has yielded a message enqueued in the meantime
C15_Witness ==
  \E h \in Handlers :
    /\ hpc[h] = "done"
    /\ Len(out[h]) = 2
    /\ out[h][1].kind = "room"
    /\ out[h][1].check_time = StartupDelay
    /\ IsNotification(out[h][2])
    /\ enqueued = <<out[h][2]>>
    /\ now > StartupDelay
    /\ Outbox(Str(hev[h].group_id)) = <<>>

(***************************************************************************)
(* C16.  The update of a room's last_status and the enqueue of its message *)
(* happen with no suspension point between them: every step of             *)
(* monitor_task changes the recorded last_status of exactly as many rooms  *)
(* as it appends messages to the outbox of each entry of the white list,   *)
(* and no other step changes a last_status; so whenever on_group_message   *)
(* can run, also during the anchor-info fetch of a change, the messages    *)
(* ever enqueued to an entry are as many as the changes of last_status     *)
(* after the baselines.                                                    *)
(***************************************************************************)
ChangedRooms ==
  {r \in DOMAIN room_status :
     room_status'[r].last_status # room_status[r].last_status}

C16_StatusAndEnqueueTogether ==
  [][/\ DOMAIN room_status \subseteq DOMAIN room_status'
     /\ Len(enqueued') = Len(enqueued) + Cardinality(ChangedRooms)
     /\ hvars' = hvars =>
          \A g \in WhiteKeys :
            Len(OutboxNext(g)) = Len(Outbox(g)) + Cardinality(ChangedRooms)
     /\ hvars' # hvars => ChangedRooms = {}
    ]_vars

\* monitor_task is suspended in the anchor-info fetch of a change, after an
\* earlier change, and a generator has read the entry of the room meanwhile:
\* the start time of the new stream is there, the status is still the old one
C16_Witness ==
  \E h \in Handlers :
    /\ mpc = "anchor"
    /\ hpc[h] = "anchor_fetch"
    /\ room_status[R1].last_status # 1
    /\ room_status[R1].live_start_time = now
    /\ hloc[h].info.start_time = now
    /\ Len(enqueued) = 1

(***************************************************************************)
(* C17.  The key under which monitor_task enqueues for an entry of the     *)
(* white list is the key on_group_message drains for an event of that      *)
(* destination, whether the entry is configured as a string or as an       *)
(* integer: when the generator of an allowed destination comes to the      *)
(* drain and a message is queued for an entry equal to the destination by  *)
(* string-normalized equality, it yields the first of these messages.      *)
(***************************************************************************)
C17_DrainsTheKeyEnqueued ==
  [][\A h \in Handlers :
       (/\ hpc[h] \in {"idle", "reply"}
        /\ hpc'[h] \in {"drain", "done"}
        /\ Allowed(hev'[h].group_id)) =>
         \A g \in WhiteKeys :
           (Str(g) = Str(hev'[h].group_id) /\ Outbox(g) # <<>>) =>
             /\ hpc'[h] = "drain"
             /\ out'[h] # <<>>
             /\ out'[h][Len(out'[h])] = Outbox(g)[1]
    ]_vars

(***************************************************************************)
(* C18.  An end-of-stream message is enqueued only when the status         *)
(* recorded for the room just before the poll was LIVE (1), whatever       *)
(* status code the poll returns; hence the go-live and end-of-stream       *)
(* messages of a room alternate.                                           *)
(***************************************************************************)
C18_EndOnlyAfterLive ==
  /\ [][\A r \in RoomIds :
          (/\ Processing(r)
           /\ Len(enqueued') = Len(enqueued) + 1
           /\ enqueued'[Len(enqueued')].kind = "end") =>
            room_status[r].last_status = 1
       ]_vars
  /\ [](\A i \in 1..(Len(enqueued) - 1) : enqueued[i].kind # enqueued[i + 1].kind)

====
